---- MODULE Spec2Model ----
(***************************************************************************)
(* The message search / filter / pagination pipeline of the dashboard:     *)
(* the Messages view (frontend/src/pages/UserDetail.jsx, second component) *)
(* and the Search view (frontend/src/pages/Search.jsx), with the URL       *)
(* helpers of frontend/src/utils/helpers.js.                               *)
(*                                                                         *)
(* JavaScript strings are sequences of one-character strings, so that      *)
(* number formatting and parsing are computed, not assumed.  A             *)
(* URLSearchParams object is a sequence of <<key, value>> pairs.           *)
(*                                                                         *)
(* One action is one task of the browser's event loop: an event handler    *)
(* with the re-render and the effects it causes, or the continuation of    *)
(* one awaited request.                                                    *)
(***************************************************************************)
EXTENDS Integers, Sequences, FiniteSets, TLC

VARIABLES
    view,          \* which component the route mounted: "Messages" | "Search"
    mounted,       \* whether the mount effect has run
    searchParams,  \* the URL's search params (the shareable representation)
    loading, error, messages, totalResults,
    page, searchQuery, userId, dateFrom, dateTo,
    sortField, sortOrder, hasMedia, isForwarded, hasReply,
    query, authorId, results, users,   \* state of the Search view only
    inflight,      \* requests sent and not yet settled, in the order sent
    issued,        \* number of requests sent so far (bounded by MaxFetches)
    nodeEnv,       \* process.env.NODE_ENV of the build
    listMessages,     \* MessageList: the messages prop
    highlightText,    \* MessageList: the highlightText prop it is given
    groupedMessages,  \* MessageList: the groupedMessages state
    listThrown,       \* MessageList: a render or effect threw
    resultWindow,     \* the rendered "Showing a to b of n" bar, <<>> before a render
    listProps,        \* MessageList / Pagination: the props the parent passes
    listForm,         \* MessageList: the state of its filter form
    pageNumbers,      \* Pagination: the list getPageNumbers returned, <<>> if none
    parsed            \* <<the object parseSearchParams returned>>, <<>> before a call

queryVars == <<page, searchQuery, userId, dateFrom, dateTo,
               sortField, sortOrder, hasMedia, isForwarded, hasReply>>
resultVars == <<loading, error, messages, totalResults>>
searchOnlyVars == <<query, authorId, results, users>>
messagesOnlyVars == <<error, messages, searchQuery, userId, sortField, sortOrder,
                      hasMedia, isForwarded, hasReply>>
presentVars == <<listMessages, highlightText, groupedMessages, listThrown,
                 resultWindow, listProps, listForm, pageNumbers, parsed>>
vars == <<view, mounted, searchParams, resultVars, queryVars, searchOnlyVars,
          inflight, issued, nodeEnv, presentVars>>

---------------------------------------------------------------------------
\* Bounds of the model.

\* Requests one Messages view instance may send in a run.
MaxFetches == 3

\* Requests one Search view instance may send in a run.
MaxSearchFetches == 2

---------------------------------------------------------------------------
\* Strings.

E == <<>>
sTrue == <<"t", "r", "u", "e">>
sFalse == <<"f", "a", "l", "s", "e">>
sDate == <<"d", "a", "t", "e">>
sUser == <<"u", "s", "e", "r">>
sLength == <<"l", "e", "n", "g", "t", "h">>
sAsc == <<"a", "s", "c">>
sDesc == <<"d", "e", "s", "c">>
sDay1 == <<"2", "0", "2", "3", "-", "0", "6", "-", "0", "1">>

Max(a, b) == IF a >= b THEN a ELSE b
Min(a, b) == IF a <= b THEN a ELSE b

Digit(d) == <<"0", "1", "2", "3", "4", "5", "6", "7", "8", "9">>[d + 1]

RECURSIVE NatToString(_)
NatToString(n) ==
    IF n < 10 THEN <<Digit(n)>> ELSE NatToString(n \div 10) \o <<Digit(n % 10)>>

\* Number.prototype.toString / String(number) for an integer.
NumToString(n) == IF n < 0 THEN <<"-">> \o NatToString(0 - n) ELSE NatToString(n)

---------------------------------------------------------------------------
\* URLSearchParams.

\* get(key): the first value of the key, or null (found = FALSE).
SPGet(sp, key) ==
    LET hits == {i \in 1..Len(sp) : sp[i][1] = key}
    IN  IF hits = {} THEN [found |-> FALSE, v |-> E]
        ELSE [found |-> TRUE, v |-> sp[CHOOSE i \in hits : \A j \in hits : i <= j][2]]

\* searchParams.get(key) || dflt
SPGetOr(sp, key, dflt) ==
    LET g == SPGet(sp, key) IN IF g.found /\ g.v # E THEN g.v ELSE dflt

\* searchParams.get(key) === 'true'
SPGetIsTrue(sp, key) ==
    LET g == SPGet(sp, key) IN g.found /\ g.v = sTrue

\* set(key, value) on an object that does not hold the key yet appends the pair.
SPSetIf(cond, sp, key, value) == IF cond THEN Append(sp, <<key, value>>) ELSE sp

---------------------------------------------------------------------------
\* The build.

\* Values of process.env.NODE_ENV.
NodeEnvs == {"development", "production"}

\* No MessageList has rendered and no result bar is shown.
NoPresentation ==
    /\ listMessages = <<>>
    /\ highlightText = E
    /\ groupedMessages = <<>>
    /\ listThrown = FALSE
    /\ resultWindow = <<>>
    /\ listProps = <<>>
    /\ listForm = <<>>
    /\ pageNumbers = <<>>
    /\ parsed = <<>>

---------------------------------------------------------------------------
\* The Messages view.

PAGE_SIZE == 20

NoError == "null"
SearchFailed == "Failed to search messages. Please try again."

\* The query, as one value.
Q == [page |-> page, searchQuery |-> searchQuery, userId |-> userId,
      dateFrom |-> dateFrom, dateTo |-> dateTo,
      sortField |-> sortField, sortOrder |-> sortOrder,
      hasMedia |-> hasMedia, isForwarded |-> isForwarded, hasReply |-> hasReply]

SetQuery(q) ==
    /\ page' = q.page
    /\ searchQuery' = q.searchQuery
    /\ userId' = q.userId
    /\ dateFrom' = q.dateFrom
    /\ dateTo' = q.dateTo
    /\ sortField' = q.sortField
    /\ sortOrder' = q.sortOrder
    /\ hasMedia' = q.hasMedia
    /\ isForwarded' = q.isForwarded
    /\ hasReply' = q.hasReply

\* useState initialisers of Messages: the query decoded from the URL.
MessagesInitialQuery(sp) ==
    [page |-> 1,
     searchQuery |-> SPGetOr(sp, "q", E),
     userId |-> SPGetOr(sp, "user", E),
     dateFrom |-> SPGetOr(sp, "from", E),
     dateTo |-> SPGetOr(sp, "to", E),
     sortField |-> SPGetOr(sp, "sort", sDate),
     sortOrder |-> SPGetOr(sp, "order", sDesc),
     hasMedia |-> SPGetIsTrue(sp, "has_media"),
     isForwarded |-> SPGetIsTrue(sp, "is_forwarded"),
     hasReply |-> SPGetIsTrue(sp, "has_reply")]

\* The params object fetchMessages sends.
MessagesRequestParams(q) ==
    LET optional == {k \in {"search_text", "user_id", "date_from", "date_to",
                            "has_media", "is_forwarded", "has_reply"} :
                        \/ k = "search_text" /\ q.searchQuery # E
                        \/ k = "user_id" /\ q.userId # E
                        \/ k = "date_from" /\ q.dateFrom # E
                        \/ k = "date_to" /\ q.dateTo # E
                        \/ k = "has_media" /\ q.hasMedia
                        \/ k = "is_forwarded" /\ q.isForwarded
                        \/ k = "has_reply" /\ q.hasReply}
    IN  [k \in {"page", "page_size", "sort_by", "sort_order"} \cup optional |->
            CASE k = "page" -> q.page
              [] k = "page_size" -> PAGE_SIZE
              [] k = "sort_by" -> q.sortField
              [] k = "sort_order" -> q.sortOrder
              [] k = "search_text" -> q.searchQuery
              [] k = "user_id" -> q.userId
              [] k = "date_from" -> q.dateFrom
              [] k = "date_to" -> q.dateTo
              [] OTHER -> TRUE]

\* The URLSearchParams the effect builds from the query.
MessagesEncode(q) ==
    LET s1 == SPSetIf(q.searchQuery # E, <<>>, "q", q.searchQuery)
        s2 == SPSetIf(q.userId # E, s1, "user", q.userId)
        s3 == SPSetIf(q.dateFrom # E, s2, "from", q.dateFrom)
        s4 == SPSetIf(q.dateTo # E, s3, "to", q.dateTo)
        s5 == SPSetIf(q.sortField # sDate, s4, "sort", q.sortField)
        s6 == SPSetIf(q.sortOrder # sDesc, s5, "order", q.sortOrder)
        s7 == SPSetIf(q.hasMedia, s6, "has_media", sTrue)
        s8 == SPSetIf(q.isForwarded, s7, "is_forwarded", sTrue)
        s9 == SPSetIf(q.hasReply, s8, "has_reply", sTrue)
    IN  SPSetIf(q.page > 1, s9, "page", NumToString(q.page))

\* The effect without its setSearchParams call: the URL keeps the previous
\* query's encoding while the new query's request is outstanding.
MessagesEffect_NoPublish(q) ==
    /\ issued < MaxFetches
    /\ loading' = TRUE
    /\ error' = NoError
    /\ inflight' = Append(inflight, [params |-> MessagesRequestParams(q)])
    /\ issued' = issued + 1
    /\ UNCHANGED <<searchParams, messages, totalResults>>

\* The effect of Messages for query q: fetchMessages() up to its await, then
\* setSearchParams.
MessagesEffect(q) ==
    /\ issued < MaxFetches
    /\ loading' = TRUE
    /\ error' = NoError
    /\ inflight' = Append(inflight, [params |-> MessagesRequestParams(q)])
    /\ issued' = issued + 1
    /\ searchParams' = MessagesEncode(q)
    /\ UNCHANGED <<messages, totalResults>>

\* A handler's state updates taken together: React re-renders, and runs the
\* effect, only when some dependency changed.
MessagesCommit(q) ==
    /\ view = "Messages"
    /\ mounted
    /\ UNCHANGED <<view, nodeEnv, presentVars, mounted, searchOnlyVars>>
    /\ IF q = Q
       THEN UNCHANGED <<searchParams, resultVars, queryVars, inflight, issued>>
       ELSE SetQuery(q) /\ MessagesEffect(q)

\* The effect after the first render.
MessagesMount ==
    /\ view = "Messages"
    /\ ~mounted
    /\ mounted' = TRUE
    /\ MessagesEffect(Q)
    /\ UNCHANGED <<view, nodeEnv, presentVars, queryVars, searchOnlyVars>>

\* Values the form controls can be given.
Texts == {E, <<"a">>, <<"a", "b">>}
UserIds == {E, <<"u", "1">>}
Dates == {E, sDay1}
SortFields == {sDate, sUser, sLength}

\* onChange of the search text input (and its clear button, v = "").
SetSearchQuery(v) == MessagesCommit([Q EXCEPT !.searchQuery = v])

\* onChange of the filter panel's inputs.
SetUserId(v) == MessagesCommit([Q EXCEPT !.userId = v])
SetDateFrom(v) == MessagesCommit([Q EXCEPT !.dateFrom = v])
SetDateTo(v) == MessagesCommit([Q EXCEPT !.dateTo = v])
SetHasMedia == MessagesCommit([Q EXCEPT !.hasMedia = ~hasMedia])
SetIsForwarded == MessagesCommit([Q EXCEPT !.isForwarded = ~isForwarded])
SetHasReply == MessagesCommit([Q EXCEPT !.hasReply = ~hasReply])

\* Submitting the search form.
MessagesHandleSearch == MessagesCommit([Q EXCEPT !.page = 1])

\* clearFilters without its setHasReply(false).
clearFilters_KeepReply ==
    MessagesCommit([Q EXCEPT !.searchQuery = E, !.userId = E, !.dateFrom = E,
                             !.dateTo = E, !.hasMedia = FALSE,
                             !.isForwarded = FALSE, !.page = 1])

clearFilters ==
    MessagesCommit([Q EXCEPT !.searchQuery = E, !.userId = E, !.dateFrom = E,
                             !.dateTo = E, !.hasMedia = FALSE,
                             !.isForwarded = FALSE, !.hasReply = FALSE,
                             !.page = 1])

\* toggleSort without its setPage(1).
toggleSort_KeepPage(field) ==
    MessagesCommit(IF sortField = field
                   THEN [Q EXCEPT !.sortOrder = IF sortOrder = sAsc THEN sDesc ELSE sAsc]
                   ELSE [Q EXCEPT !.sortField = field, !.sortOrder = sDesc])

toggleSort(field) ==
    MessagesCommit(IF sortField = field
                   THEN [Q EXCEPT !.sortOrder = IF sortOrder = sAsc THEN sDesc ELSE sAsc,
                                  !.page = 1]
                   ELSE [Q EXCEPT !.sortField = field, !.sortOrder = sDesc,
                                  !.page = 1])

\* The quotient rounded down instead of up.
CeilDiv_Floor(total, size) == total \div size

\* Math.ceil(total / PAGE_SIZE) for total >= 0.
CeilDiv(total, size) == (total + size - 1) \div size

totalPages == CeilDiv(totalResults, PAGE_SIZE)
startResult == (page - 1) * PAGE_SIZE + 1
endResult == Min(page * PAGE_SIZE, totalResults)

\* The pagination bar is rendered under the message list only.
MessagesPaginationShown == ~loading /\ error = NoError /\ totalPages > 1

MessagesPrevious ==
    /\ MessagesPaginationShown
    /\ page # 1
    /\ MessagesCommit([Q EXCEPT !.page = Max(1, page - 1)])

MessagesNextPage ==
    /\ MessagesPaginationShown
    /\ page # totalPages
    /\ MessagesCommit([Q EXCEPT !.page = Min(totalPages, page + 1)])

\* The number shown on the i-th page button (i from 0).
MessagesPageNum(i) ==
    IF totalPages <= 5 THEN i + 1
    ELSE IF page <= 3 THEN i + 1
    ELSE IF page >= totalPages - 2 THEN totalPages - 4 + i
    ELSE page - 2 + i

MessagesPageButton(i) ==
    /\ MessagesPaginationShown
    /\ i \in 0..(Min(5, totalPages) - 1)
    /\ MessagesCommit([Q EXCEPT !.page = MessagesPageNum(i)])

\* Response bodies of the search endpoint; an absent field is <<>>, a present
\* one <<value>>.  Messages are named by their ids.
ResponseBodies ==
    {[messages |-> <<>>, total |-> <<>>],
     [messages |-> << <<>> >>, total |-> <<0>>],
     [messages |-> << <<1, 2>> >>, total |-> <<45>>]}

\* x || dflt for an optional field.
OrElse(opt, dflt) == IF opt = <<>> THEN dflt ELSE opt[1]

RemoveAt(s, i) == SubSeq(s, 1, i - 1) \o SubSeq(s, i + 1, Len(s))

\* The continuation without the defaults for absent fields: what the view
\* held stays.
MessagesResolve_KeepAbsent(i, body) ==
    /\ view = "Messages"
    /\ mounted
    /\ i \in 1..Len(inflight)
    /\ messages' = OrElse(body.messages, messages)
    /\ totalResults' = OrElse(body.total, totalResults)
    /\ loading' = FALSE
    /\ inflight' = RemoveAt(inflight, i)
    /\ UNCHANGED <<view, nodeEnv, presentVars, mounted, searchParams, error,
                   queryVars, issued, searchOnlyVars>>

\* fetchMessages after its await, the request fulfilled.
MessagesResolve(i, body) ==
    /\ view = "Messages"
    /\ mounted
    /\ i \in 1..Len(inflight)
    /\ messages' = OrElse(body.messages, <<>>)
    /\ totalResults' = OrElse(body.total, 0)
    /\ loading' = FALSE
    /\ inflight' = RemoveAt(inflight, i)
    /\ UNCHANGED <<view, nodeEnv, presentVars, mounted, searchParams, error, queryVars, issued,
                   searchOnlyVars>>

\* The catch block without its setLoading(false).
MessagesReject_KeepLoading(i) ==
    /\ view = "Messages"
    /\ mounted
    /\ i \in 1..Len(inflight)
    /\ error' = SearchFailed
    /\ inflight' = RemoveAt(inflight, i)
    /\ UNCHANGED <<view, nodeEnv, presentVars, mounted, searchParams, messages, totalResults,
                   loading, queryVars, issued, searchOnlyVars>>

\* fetchMessages after its await, the request rejected: the catch block.
MessagesReject(i) ==
    /\ view = "Messages"
    /\ mounted
    /\ i \in 1..Len(inflight)
    /\ error' = SearchFailed
    /\ loading' = FALSE
    /\ inflight' = RemoveAt(inflight, i)
    /\ UNCHANGED <<view, nodeEnv, presentVars, mounted, searchParams, messages, totalResults,
                   queryVars, issued, searchOnlyVars>>

\* api.js mockData.searchResults.
mockSearchResults == [messages |-> << <<>> >>, total |-> <<0>>]

\* The response interceptor's error handler for a request of the search
\* endpoint: a development build fulfils the request with the mock results,
\* any other build rejects it.
ResponseInterceptor(env) ==
    IF env = "development"
    THEN [fulfilled |-> TRUE, data |-> mockSearchResults]
    ELSE [fulfilled |-> FALSE, data |-> mockSearchResults]

\* The transport of request i fails (network error, timeout, status outside
\* 2xx): the interceptor's outcome reaches fetchMessages.
MessagesTransportError(i) ==
    IF ResponseInterceptor(nodeEnv).fulfilled
    THEN MessagesResolve(i, ResponseInterceptor(nodeEnv).data)
    ELSE MessagesReject(i)

\* The Retry button of the error branch: window.location.reload().  The
\* document is loaded again from the current URL; the old document's requests
\* go with it.
MessagesRetry ==
    /\ view = "Messages"
    /\ mounted
    /\ ~loading
    /\ error # NoError
    /\ mounted' = FALSE
    /\ SetQuery(MessagesInitialQuery(searchParams))
    /\ loading' = FALSE
    /\ error' = NoError
    /\ messages' = <<>>
    /\ totalResults' = 0
    /\ inflight' = <<>>
    /\ UNCHANGED <<view, nodeEnv, presentVars, searchParams, issued, searchOnlyVars>>

\* URLs the Messages view may be opened with.
MessagesInitialUrls ==
    {<<>>,
     << <<"q", <<"a">> >>, <<"page", <<"3">> >> >>,
     << <<"sort", sUser>>, <<"order", sAsc>>, <<"has_media", sTrue>> >>,
     << <<"has_media", sFalse>>, <<"is_forwarded", <<"1">> >>,
        <<"has_reply", <<"T", "R", "U", "E">> >>, <<"sort", <<"x">> >> >>}

MessagesInit ==
    /\ view = "Messages"
    /\ mounted = FALSE
    /\ searchParams \in MessagesInitialUrls
    /\ loading = FALSE
    /\ error = NoError
    /\ messages = <<>>
    /\ totalResults = 0
    /\ page = MessagesInitialQuery(searchParams).page
    /\ searchQuery = MessagesInitialQuery(searchParams).searchQuery
    /\ userId = MessagesInitialQuery(searchParams).userId
    /\ dateFrom = MessagesInitialQuery(searchParams).dateFrom
    /\ dateTo = MessagesInitialQuery(searchParams).dateTo
    /\ sortField = MessagesInitialQuery(searchParams).sortField
    /\ sortOrder = MessagesInitialQuery(searchParams).sortOrder
    /\ hasMedia = MessagesInitialQuery(searchParams).hasMedia
    /\ isForwarded = MessagesInitialQuery(searchParams).isForwarded
    /\ hasReply = MessagesInitialQuery(searchParams).hasReply
    /\ query = E
    /\ authorId = E
    /\ results = <<>>
    /\ users = <<>>
    /\ inflight = <<>>
    /\ issued = 0
    /\ nodeEnv \in NodeEnvs
    /\ NoPresentation

MessagesNext ==
    \/ MessagesMount
    \/ \E v \in Texts : SetSearchQuery(v)
    \/ \E v \in UserIds : SetUserId(v)
    \/ \E v \in Dates : SetDateFrom(v)
    \/ \E v \in Dates : SetDateTo(v)
    \/ SetHasMedia
    \/ SetIsForwarded
    \/ SetHasReply
    \/ MessagesHandleSearch
    \/ clearFilters
    \/ \E f \in SortFields : toggleSort(f)
    \/ MessagesPrevious
    \/ MessagesNextPage
    \/ \E i \in 0..4 : MessagesPageButton(i)
    \/ \E i \in 1..MaxFetches : \E body \in ResponseBodies : MessagesResolve(i, body)
    \/ \E i \in 1..MaxFetches : MessagesTransportError(i)
    \/ MessagesRetry

SpecMessages == MessagesInit /\ [][MessagesNext]_vars

---------------------------------------------------------------------------
\* The Messages view with a search endpoint whose total depends on the
\* query: besides the bodies above it answers with a result of 5 matches.

FilteredResult == [messages |-> << <<3>> >>, total |-> <<5>>]

MessagesResolveFiltered(i) == MessagesResolve(i, FilteredResult)

FilteredNext ==
    \/ MessagesNext
    \/ \E i \in 1..MaxFetches : MessagesResolveFiltered(i)

SpecFiltered == MessagesInit /\ [][FilteredNext]_vars

---------------------------------------------------------------------------
\* JavaScript values of the Search view: strings, booleans, numbers, arrays
\* and undefined, each tagged with its type.  An object is the sequence of its
\* <<key, value>> properties in insertion order.

JStr(x) == [t |-> "str", v |-> x]
JBool(b) == [t |-> "bool", v |-> b]
JNum(n) == [t |-> "num", v |-> n]
JArr(a) == [t |-> "arr", v |-> a]
JUndef == [t |-> "undef", v |-> <<>>]

Truthy(x) ==
    CASE x.t = "str" -> x.v # E
      [] x.t = "bool" -> x.v
      [] x.t = "num" -> x.v # 0
      [] x.t = "arr" -> TRUE
      [] OTHER -> FALSE

\* x || ''
OrEmpty(x) == IF Truthy(x) THEN x ELSE JStr(E)

sUndefined == <<"u", "n", "d", "e", "f", "i", "n", "e", "d">>

\* String(x); an array joins its elements with commas.
RECURSIVE JSString(_)
JSString(x) ==
    CASE x.t = "str" -> x.v
      [] x.t = "bool" -> IF x.v THEN sTrue ELSE sFalse
      [] x.t = "num" -> NumToString(x.v)
      [] x.t = "arr" ->
            IF x.v = <<>> THEN E
            ELSE IF Len(x.v) = 1 THEN JSString(x.v[1])
            ELSE JSString(x.v[1]) \o <<",">> \o JSString(JArr(Tail(x.v)))
      [] OTHER -> sUndefined

IsDigit(c) == c \in {"0", "1", "2", "3", "4", "5", "6", "7", "8", "9"}
DigitVal(c) == CHOOSE d \in 0..9 : Digit(d) = c

RECURSIVE SkipSpaces(_)
SkipSpaces(str) ==
    IF str # E /\ Head(str) \in {" ", "\t", "\n"} THEN SkipSpaces(Tail(str)) ELSE str

RECURSIVE LeadingDigits(_, _)
LeadingDigits(str, acc) ==
    IF str = E \/ ~IsDigit(Head(str)) THEN acc
    ELSE LeadingDigits(Tail(str), acc * 10 + DigitVal(Head(str)))

\* parseInt(x): an optional sign and the leading decimal digits of String(x)
\* after its leading blanks; NaN when there is no digit.
ParseInt(x) ==
    LET str == SkipSpaces(JSString(x))
        signed == str # E /\ Head(str) \in {"+", "-"}
        body == IF signed THEN Tail(str) ELSE str
    IN  IF body = E \/ ~IsDigit(Head(body)) THEN [nan |-> TRUE, n |-> 0]
        ELSE [nan |-> FALSE,
              n |-> IF signed /\ Head(str) = "-"
                    THEN 0 - LeadingDigits(body, 0) ELSE LeadingDigits(body, 0)]

\* parseInt(x) || 1
ParseIntOr1(x) == LET r == ParseInt(x) IN IF r.nan \/ r.n = 0 THEN 1 ELSE r.n

\* obj[key]
ObjGet(obj, key) ==
    LET hits == {i \in 1..Len(obj) : obj[i][1] = key}
    IN  IF hits = {} THEN JUndef ELSE obj[CHOOSE i \in hits : TRUE][2]

\* obj[key] = value
ObjSet(obj, key, value) ==
    IF \E i \in 1..Len(obj) : obj[i][1] = key
    THEN [i \in 1..Len(obj) |-> IF obj[i][1] = key THEN <<key, value>> ELSE obj[i]]
    ELSE Append(obj, <<key, value>>)

\* helpers.js parseSearchParams: the forEach over the URL's pairs from pair i.
RECURSIVE ParseFrom(_, _, _)
ParseFrom(sp, i, params) ==
    IF i > Len(sp) THEN params
    ELSE LET key == sp[i][1]
             value == sp[i][2]
             cur == ObjGet(params, key)
         IN  IF Truthy(cur)
             THEN ParseFrom(sp, i + 1,
                      ObjSet(params, key,
                          JArr(Append(IF cur.t = "arr" THEN cur.v ELSE <<cur>>,
                                      JStr(value)))))
             ELSE ParseFrom(sp, i + 1,
                      ObjSet(params, key,
                          IF value = sTrue THEN JBool(TRUE)
                          ELSE IF value = sFalse THEN JBool(FALSE)
                          ELSE JStr(value)))

parseSearchParams(sp) == ParseFrom(sp, 1, <<>>)

\* The pairs of one property: an array gives one pair per element.
PairsOf(key, value) ==
    IF value.t = "arr"
    THEN [i \in 1..Len(value.v) |-> <<key, JSString(value.v[i])>>]
    ELSE << <<key, JSString(value)>> >>

\* setSearchParams(obj): the URLSearchParams built from an object.
RECURSIVE createSearchParams(_)
createSearchParams(obj) ==
    IF obj = <<>> THEN <<>>
    ELSE PairsOf(obj[1][1], obj[1][2]) \o createSearchParams(Tail(obj))

---------------------------------------------------------------------------
\* The Search view.

pageSize == 20

\* The form state the effect sets from a params object.
SearchDecoded(params) ==
    [query |-> OrEmpty(ObjGet(params, "query")),
     dateFrom |-> OrEmpty(ObjGet(params, "dateFrom")),
     dateTo |-> OrEmpty(ObjGet(params, "dateTo")),
     authorId |-> OrEmpty(ObjGet(params, "authorId")),
     page |-> ParseIntOr1(ObjGet(params, "page"))]

\* The effect on searchParams, run with the URL sp after `before` requests
\* were sent in the same task: the form state is set from the URL and, if the
\* URL has a query, performSearch(params) runs up to its await.
SearchEffect(sp, before, wasLoading) ==
    LET params == parseSearchParams(sp)
    IN  /\ query' = SearchDecoded(params).query
        /\ dateFrom' = SearchDecoded(params).dateFrom
        /\ dateTo' = SearchDecoded(params).dateTo
        /\ authorId' = SearchDecoded(params).authorId
        /\ page' = SearchDecoded(params).page
        /\ IF Truthy(ObjGet(params, "query"))
           THEN loading' = TRUE /\ inflight' = Append(before, [params |-> params])
           ELSE loading' = wasLoading /\ inflight' = before

\* What no Search action changes, and the count of the requests it sent.
SearchFrame ==
    /\ issued' = issued + Len(inflight') - Len(inflight)
    /\ issued' <= MaxSearchFetches
    /\ UNCHANGED <<view, nodeEnv, presentVars, messagesOnlyVars>>

SearchMount ==
    /\ view = "Search"
    /\ ~mounted
    /\ mounted' = TRUE
    /\ SearchEffect(searchParams, inflight, loading)
    /\ SearchFrame
    /\ UNCHANGED <<searchParams, results, totalResults, users>>

\* fetchUsers of an effect run, fulfilled (a rejection is only logged).
UserList == << <<"u", "1">> >>

SearchUsersLoaded ==
    /\ view = "Search"
    /\ mounted
    /\ users' = UserList
    /\ UNCHANGED <<view, nodeEnv, presentVars, mounted, searchParams, resultVars, queryVars,
                   query, authorId, results, inflight, issued>>

\* Values typed into the Search form's text input.
SearchTexts == {E, <<"a">>}

\* onChange of the form's controls: no request, no URL change.
SearchSetQuery(v) ==
    /\ view = "Search"
    /\ mounted
    /\ query' = JStr(v)
    /\ UNCHANGED <<view, nodeEnv, presentVars, mounted, searchParams, resultVars, queryVars,
                   authorId, results, users, inflight, issued>>

SearchSetDateFrom(v) ==
    /\ view = "Search"
    /\ mounted
    /\ dateFrom' = JStr(v)
    /\ UNCHANGED <<view, nodeEnv, presentVars, mounted, searchParams, resultVars, page, dateTo,
                   messagesOnlyVars, searchOnlyVars, inflight, issued>>

SearchSetDateTo(v) ==
    /\ view = "Search"
    /\ mounted
    /\ dateTo' = JStr(v)
    /\ UNCHANGED <<view, nodeEnv, presentVars, mounted, searchParams, resultVars, page, dateFrom,
                   messagesOnlyVars, searchOnlyVars, inflight, issued>>

\* The author select offers "All authors" and the loaded users.
SearchSetAuthorId(v) ==
    /\ view = "Search"
    /\ mounted
    /\ v = E \/ \E i \in 1..Len(users) : users[i] = v
    /\ authorId' = JStr(v)
    /\ UNCHANGED <<view, nodeEnv, presentVars, mounted, searchParams, resultVars, queryVars,
                   query, results, users, inflight, issued>>

\* The object handleSearch publishes and searches with.
SearchNewParams ==
    << <<"query", query>>, <<"dateFrom", dateFrom>>, <<"dateTo", dateTo>>,
       <<"authorId", authorId>>, <<"page", JNum(1)>> >>

\* Submitting the form: setSearchParams(newParams), performSearch(newParams)
\* up to its await, then, if the URL changed, the effect.
SearchHandleSearch ==
    /\ view = "Search"
    /\ mounted
    /\ searchParams' = createSearchParams(SearchNewParams)
    /\ IF searchParams' # searchParams
       THEN SearchEffect(searchParams',
                         Append(inflight, [params |-> SearchNewParams]), TRUE)
       ELSE /\ loading' = TRUE
            /\ inflight' = Append(inflight, [params |-> SearchNewParams])
            /\ UNCHANGED <<query, dateFrom, dateTo, authorId, page>>
    /\ SearchFrame
    /\ UNCHANGED <<mounted, results, totalResults, users>>

SearchTotalPages == CeilDiv(totalResults, pageSize)

\* handlePageChange(newPage): the URL's params with page replaced are
\* published, setPage(newPage), then, if the URL changed, the effect.
SearchHandlePageChange(newPage) ==
    /\ view = "Search"
    /\ mounted
    /\ searchParams' = createSearchParams(
           ObjSet(parseSearchParams(searchParams), "page", JNum(newPage)))
    /\ IF searchParams' # searchParams
       THEN SearchEffect(searchParams', inflight, loading)
       ELSE /\ page' = newPage
            /\ UNCHANGED <<query, dateFrom, dateTo, authorId, loading, inflight>>
    /\ SearchFrame
    /\ UNCHANGED <<mounted, results, totalResults, users>>

\* The pagination bar is inside the results panel, shown when query is set.
SearchPaginationShown == Truthy(query) /\ SearchTotalPages > 1

SearchPrevious ==
    /\ view = "Search"
    /\ SearchPaginationShown
    /\ page # 1
    /\ SearchHandlePageChange(Max(1, page - 1))

SearchNextPage ==
    /\ view = "Search"
    /\ SearchPaginationShown
    /\ page # SearchTotalPages
    /\ SearchHandlePageChange(Min(SearchTotalPages, page + 1))

\* performSearch after its await, the request fulfilled.
SearchResolve(i, body) ==
    /\ view = "Search"
    /\ mounted
    /\ i \in 1..Len(inflight)
    /\ results' = OrElse(body.messages, <<>>)
    /\ totalResults' = OrElse(body.total, 0)
    /\ loading' = FALSE
    /\ inflight' = RemoveAt(inflight, i)
    /\ UNCHANGED <<view, nodeEnv, presentVars, mounted, searchParams, page, dateFrom, dateTo,
                   messagesOnlyVars, query, authorId, users, issued>>

\* performSearch after its await, the request rejected: logged, then finally.
SearchReject(i) ==
    /\ view = "Search"
    /\ mounted
    /\ i \in 1..Len(inflight)
    /\ loading' = FALSE
    /\ inflight' = RemoveAt(inflight, i)
    /\ UNCHANGED <<view, nodeEnv, presentVars, mounted, searchParams, totalResults, page, dateFrom,
                   dateTo, messagesOnlyVars, searchOnlyVars, issued>>

\* The transport of request i fails: the interceptor's outcome reaches
\* performSearch.
SearchTransportError(i) ==
    IF ResponseInterceptor(nodeEnv).fulfilled
    THEN SearchResolve(i, ResponseInterceptor(nodeEnv).data)
    ELSE SearchReject(i)

\* URLs the Search view may be opened with.
SearchInitialUrls ==
    {<<>>,
     << <<"query", <<"a">> >>, <<"page", <<"2">> >> >>,
     << <<"query", <<"a">> >>, <<"page", <<"-", "3">> >> >>,
     << <<"query", sTrue>>, <<"page", <<"a", "b", "c">> >>,
        <<"has_media", <<"1">> >> >>,
     << <<"query", <<"a">> >>, <<"query", <<"a", "b">> >>,
        <<"has_reply", sTrue>> >>}

SearchInit ==
    /\ view = "Search"
    /\ mounted = FALSE
    /\ searchParams \in SearchInitialUrls
    /\ query = JStr(E)
    /\ dateFrom = JStr(E)
    /\ dateTo = JStr(E)
    /\ authorId = JStr(E)
    /\ results = <<>>
    /\ loading = FALSE
    /\ users = <<>>
    /\ totalResults = 0
    /\ page = 1
    /\ error = NoError
    /\ messages = <<>>
    /\ searchQuery = E
    /\ userId = E
    /\ sortField = sDate
    /\ sortOrder = sDesc
    /\ hasMedia = FALSE
    /\ isForwarded = FALSE
    /\ hasReply = FALSE
    /\ inflight = <<>>
    /\ issued = 0
    /\ nodeEnv \in NodeEnvs
    /\ NoPresentation

SearchNext ==
    \/ SearchMount
    \/ SearchUsersLoaded
    \/ \E v \in SearchTexts : SearchSetQuery(v)
    \/ \E v \in Dates : SearchSetDateFrom(v)
    \/ \E v \in Dates : SearchSetDateTo(v)
    \/ \E v \in UserIds : SearchSetAuthorId(v)
    \/ SearchHandleSearch
    \/ SearchPrevious
    \/ SearchNextPage
    \/ \E i \in 1..MaxSearchFetches : \E body \in ResponseBodies : SearchResolve(i, body)
    \/ \E i \in 1..MaxSearchFetches : SearchTransportError(i)

SpecSearch == SearchInit /\ [][SearchNext]_vars

---------------------------------------------------------------------------
\* The MessageList component (components/MessageList.jsx) and the MessageCard
\* it renders for each message (second component of components/Loading.jsx).
\* A field of a message is absent (<<>>) or present (<<value>>); values are
\* strings.

MessageFields == {"id", "date", "content", "text", "user_name", "from_name",
                  "from_id", "user_id"}

\* The message with the given fields present.
Message(fields) == [f \in MessageFields |-> IF f \in DOMAIN fields THEN <<fields[f]>> ELSE <<>>]

sDay2 == <<"2", "0", "2", "3", "-", "0", "6", "-", "0", "2">>
sAnonymous == <<"A", "n", "o", "n", "y", "m", "o", "u", "s", " ", "U", "s", "e", "r">>

\* Messages a result page may hold.
SampleMessages ==
    {Message([id |-> <<"1">>, date |-> sDay1 \o <<"T", "0", "9">>,
              content |-> <<"a", "A", "b">>, user_name |-> <<"A", "l">>,
              from_id |-> <<"u", "1">>]),
     Message([id |-> <<"2">>, date |-> sDay2,
              text |-> <<"b", "a">>, from_name |-> <<"A", "l">>,
              user_id |-> <<"u", "1">>]),
     Message([id |-> <<"3">>, date |-> sDay1 \o <<"T", "1", "0">>,
              content |-> <<"b">>, text |-> <<"a">>, user_name |-> <<"B", "o">>,
              from_name |-> <<"A", "l">>, from_id |-> <<"u", "2">>,
              user_id |-> <<"u", "1">>]),
     Message([content |-> <<"a">>])}

\* x is undefined or the empty string.
Falsy(opt) == opt = <<>> \/ opt[1] = E

\* str.split('T')[0]
RECURSIVE SplitT(_)
SplitT(str) ==
    IF str = E \/ Head(str) = "T" THEN E ELSE <<Head(str)>> \o SplitT(Tail(str))

\* groups[date] of the object groups, a sequence of <<key, messages>>.
GroupGet(groups, date) ==
    LET hits == {k \in 1..Len(groups) : groups[k][1] = date}
    IN  IF hits = {} THEN <<>> ELSE groups[CHOOSE k \in hits : TRUE][2]

\* The reducer of the grouping effect, from message i on.
RECURSIVE GroupFrom(_, _, _)
GroupFrom(msgs, i, groups) ==
    IF i > Len(msgs) THEN groups
    ELSE LET date == SplitT(msgs[i].date[1])
         IN  GroupFrom(msgs, i + 1,
                 IF GroupGet(groups, date) = <<>>
                 THEN Append(groups, <<date, <<msgs[i]>> >>)
                 ELSE [k \in 1..Len(groups) |->
                          IF groups[k][1] = date
                          THEN <<date, Append(groups[k][2], msgs[i])>>
                          ELSE groups[k]])

\* messages.reduce(..., {})
GroupByDate(msgs) == GroupFrom(msgs, 1, <<>>)

\* message.date.split('T') throws a TypeError for a message without a date.
GroupingThrows(msgs) == \E i \in 1..Len(msgs) : msgs[i].date = <<>>

\* new Date(key) for a key YYYY-MM-DD, as a number that grows with the date;
\* NaN for any other key.
DateValue(key) ==
    IF /\ Len(key) = 10
       /\ \A k \in {1, 2, 3, 4, 6, 7, 9, 10} : IsDigit(key[k])
       /\ key[5] = "-" /\ key[8] = "-"
    THEN [nan |-> FALSE,
          n |-> LeadingDigits(SubSeq(key, 1, 4), 0) * 372
                + LeadingDigits(SubSeq(key, 6, 7), 0) * 31
                + LeadingDigits(SubSeq(key, 9, 10), 0)]
    ELSE [nan |-> TRUE, n |-> 0]

\* The comparator with its operands exchanged: oldest date first.
DateCompare_Ascending(a, b) ==
    IF DateValue(a).nan \/ DateValue(b).nan THEN 0
    ELSE DateValue(a).n - DateValue(b).n

\* The comparator (a, b) => new Date(b) - new Date(a); NaN counts as 0.
DateCompare(a, b) ==
    IF DateValue(a).nan \/ DateValue(b).nan THEN 0
    ELSE DateValue(b).n - DateValue(a).n

\* Array.prototype.sort with the comparator: a stable insertion of each key.
RECURSIVE InsertKey(_, _)
InsertKey(sorted, key) ==
    IF sorted = <<>> THEN <<key>>
    ELSE IF DateCompare(sorted[Len(sorted)], key) <= 0 THEN Append(sorted, key)
    ELSE Append(InsertKey(SubSeq(sorted, 1, Len(sorted) - 1), key),
                sorted[Len(sorted)])

RECURSIVE SortKeys(_)
SortKeys(keys) ==
    IF keys = <<>> THEN <<>>
    ELSE InsertKey(SortKeys(SubSeq(keys, 1, Len(keys) - 1)), keys[Len(keys)])

\* Object.keys(groupedMessages).sort(...)
sortedDates == SortKeys([k \in 1..Len(groupedMessages) |-> groupedMessages[k][1]])

\* What MessageList renders: the empty state, the date groups in the order
\* of sortedDates, or the flat list when no group is held.
MessageListView ==
    IF listMessages = <<>> THEN [kind |-> "empty", buckets |-> <<>>]
    ELSE IF Len(groupedMessages) > 0
    THEN [kind |-> "grouped",
          buckets |-> [k \in 1..Len(sortedDates) |->
                          <<sortedDates[k], GroupGet(groupedMessages, sortedDates[k])>>]]
    ELSE [kind |-> "flat", buckets |-> << <<E, listMessages>> >>]

\* a || b for two optional strings.
Either(a, b) == IF Falsy(a) THEN b ELSE a

\* helpers.js extractText of a string or a missing value.
extractText(text) == IF Falsy(text) THEN E ELSE text[1]

\* helpers.js truncateText.
truncateText(text, maxLength) ==
    IF text = E THEN E
    ELSE IF Len(text) <= maxLength THEN text
    ELSE SubSeq(text, 1, maxLength) \o <<".", ".", ".">>

\* The fields MessageCard selects from its message.
MessageCardFields(message) ==
    [messageContent |-> Either(Either(message.content, message.text), <<E>>)[1],
     userName |-> Either(Either(message.user_name, message.from_name),
                         <<sAnonymous>>)[1],
     userId |-> Either(message.from_id, <<E>>)[1]]

\* The children of the card's content paragraph: one text node.
MessageCardBody(message) ==
    << [mark |-> FALSE,
        text |-> truncateText(
                     extractText(<<MessageCardFields(message).messageContent>>),
                     500)] >>

\* Lengths of the lists a parent passes.
MaxListLen == 3

RECURSIVE ListsUpTo(_)
ListsUpTo(n) ==
    IF n = 0 THEN {<<>>}
    ELSE ListsUpTo(n - 1) \cup
         {Append(l, m) : l \in {x \in ListsUpTo(n - 1) : Len(x) = n - 1},
                         m \in SampleMessages}

\* The parent renders MessageList with a messages array and a highlightText:
\* the render, then the grouping effect.
MessageListRender(msgs, term) ==
    /\ view = "MessageList"
    /\ ~listThrown
    /\ listMessages' = msgs
    /\ highlightText' = term
    /\ IF msgs = <<>>
       THEN UNCHANGED <<groupedMessages, listThrown>>
       ELSE IF GroupingThrows(msgs)
       THEN listThrown' = TRUE /\ UNCHANGED groupedMessages
       ELSE groupedMessages' = GroupByDate(msgs) /\ UNCHANGED listThrown
    /\ UNCHANGED <<view, mounted, searchParams, resultVars, queryVars,
                   searchOnlyVars, inflight, issued, nodeEnv, resultWindow,
                   listProps, listForm, pageNumbers, parsed>>

MessageListInit ==
    /\ view = "MessageList"
    /\ mounted = TRUE
    /\ searchParams = <<>>
    /\ loading = FALSE
    /\ error = NoError
    /\ messages = <<>>
    /\ totalResults = 0
    /\ page = 1
    /\ searchQuery = E
    /\ userId = E
    /\ dateFrom = E
    /\ dateTo = E
    /\ sortField = sDate
    /\ sortOrder = sDesc
    /\ hasMedia = FALSE
    /\ isForwarded = FALSE
    /\ hasReply = FALSE
    /\ query = E
    /\ authorId = E
    /\ results = <<>>
    /\ users = <<>>
    /\ inflight = <<>>
    /\ issued = 0
    /\ nodeEnv \in NodeEnvs
    /\ NoPresentation

\* Terms the parent passes as highlightText.
HighlightTerms == {E, <<"a">>}

---------------------------------------------------------------------------
\* The result bar of the two views: page count and result window.

\* Totals and pages of the results a view may hold.
MaxTotal == 45
MaxPage == 3

SearchStartResult == (page - 1) * pageSize + 1
SearchEndResult == Min(page * pageSize, totalResults)

\* A render of Messages: totalPages, startResult and endResult are computed;
\* the bar shows the window when there are results.
MessagesRender ==
    /\ view = "Messages"
    /\ mounted
    /\ resultWindow' = [totalPages |-> totalPages,
                        shown |-> totalResults > 0,
                        range |-> <<startResult, endResult>>]
    /\ UNCHANGED <<view, mounted, searchParams, resultVars, queryVars,
                   searchOnlyVars, inflight, issued, nodeEnv, listMessages,
                   highlightText, groupedMessages, listThrown, listProps,
                   listForm, pageNumbers, parsed>>

\* A render of Search: totalPages is computed, the window only inside the
\* pagination bar.
SearchRender ==
    /\ view = "Search"
    /\ mounted
    /\ resultWindow' = [totalPages |-> SearchTotalPages,
                        shown |-> SearchPaginationShown,
                        range |-> IF SearchPaginationShown
                                  THEN <<SearchStartResult, SearchEndResult>>
                                  ELSE <<>>]
    /\ UNCHANGED <<view, mounted, searchParams, resultVars, queryVars,
                   searchOnlyVars, inflight, issued, nodeEnv, listMessages,
                   highlightText, groupedMessages, listThrown, listProps,
                   listForm, pageNumbers, parsed>>

\* The Messages view holding a result of some total on some page.
MessagesResultInit ==
    /\ view = "Messages"
    /\ mounted = TRUE
    /\ loading = FALSE
    /\ error = NoError
    /\ messages = <<>>
    /\ totalResults \in 0..MaxTotal
    /\ page \in 1..MaxPage
    /\ searchQuery = E
    /\ userId = E
    /\ dateFrom = E
    /\ dateTo = E
    /\ sortField = sDate
    /\ sortOrder = sDesc
    /\ hasMedia = FALSE
    /\ isForwarded = FALSE
    /\ hasReply = FALSE
    /\ searchParams = SPSetIf(page > 1, <<>>, "page", NumToString(page))
    /\ query = E
    /\ authorId = E
    /\ results = <<>>
    /\ users = <<>>
    /\ inflight = <<>>
    /\ issued = 1
    /\ nodeEnv \in NodeEnvs
    /\ NoPresentation

\* The Search view holding a result of some total on some page.
SearchResultInit ==
    /\ view = "Search"
    /\ mounted = TRUE
    /\ loading = FALSE
    /\ page \in 1..MaxPage
    /\ totalResults \in 0..MaxTotal
    /\ searchParams = << <<"query", <<"a">> >>, <<"page", NumToString(page)>> >>
    /\ query = JStr(<<"a">>)
    /\ dateFrom = JStr(E)
    /\ dateTo = JStr(E)
    /\ authorId = JStr(E)
    /\ results = <<>>
    /\ users = <<>>
    /\ error = NoError
    /\ messages = <<>>
    /\ searchQuery = E
    /\ userId = E
    /\ sortField = sDate
    /\ sortOrder = sDesc
    /\ hasMedia = FALSE
    /\ isForwarded = FALSE
    /\ hasReply = FALSE
    /\ inflight = <<>>
    /\ issued = 1
    /\ nodeEnv \in NodeEnvs
    /\ NoPresentation

---------------------------------------------------------------------------
\* The presentation of results: a MessageList given result pages, and the
\* result bar of a view holding a result.

PresentInit == MessageListInit \/ MessagesResultInit \/ SearchResultInit

PresentNext ==
    \/ \E msgs \in ListsUpTo(MaxListLen) : \E term \in HighlightTerms :
           MessageListRender(msgs, term)
    \/ MessagesRender
    \/ SearchRender

SpecPresent == PresentInit /\ [][PresentNext]_vars

---------------------------------------------------------------------------
\* The Pagination component (components/Loading.jsx, second component) and
\* the MessageList that renders it for a parent holding the current page.

\* Page counts a Pagination may be given.
MaxPagerPages == 9

sEllipsis == <<".", ".", ".">>

\* The entries startPage..endPage of the list.
PageRange(startPage, endPage) ==
    [k \in 1..Max(0, endPage - startPage + 1) |-> JNum(startPage + k - 1)]

\* getPageNumbers with the leading ellipsis only when two or more pages are
\* left out after page 1.
getPageNumbers_LateEllipsis(total, currentPage) ==
    IF total <= 7 THEN PageRange(1, total)
    ELSE LET start0 == Max(2, currentPage - 2)
             end0 == Min(total - 1, currentPage + 2)
             start1 == IF currentPage <= 4 THEN 2 ELSE start0
             end1 == IF currentPage <= 4 THEN Min(total - 1, 7 - 2) ELSE end0
             startPage == IF currentPage >= total - 3
                          THEN Max(2, total - 7 + 2) ELSE start1
             endPage == IF currentPage >= total - 3 THEN total - 1 ELSE end1
         IN  <<JNum(1)>>
             \o (IF startPage > 3 THEN <<JStr(sEllipsis)>> ELSE <<>>)
             \o PageRange(startPage, endPage)
             \o (IF endPage < total - 1 THEN <<JStr(sEllipsis)>> ELSE <<>>)
             \o <<JNum(total)>>

\* Pagination.getPageNumbers for the props totalPages and currentPage.
getPageNumbers(total, currentPage) ==
    IF total <= 7 THEN PageRange(1, total)
    ELSE LET start0 == Max(2, currentPage - 2)
             end0 == Min(total - 1, currentPage + 2)
             start1 == IF currentPage <= 4 THEN 2 ELSE start0
             end1 == IF currentPage <= 4 THEN Min(total - 1, 7 - 2) ELSE end0
             startPage == IF currentPage >= total - 3
                          THEN Max(2, total - 7 + 2) ELSE start1
             endPage == IF currentPage >= total - 3 THEN total - 1 ELSE end1
         IN  <<JNum(1)>>
             \o (IF startPage > 2 THEN <<JStr(sEllipsis)>> ELSE <<>>)
             \o PageRange(startPage, endPage)
             \o (IF endPage < total - 1 THEN <<JStr(sEllipsis)>> ELSE <<>>)
             \o <<JNum(total)>>

\* The form state of MessageList and the key of the searchParams prop each
\* field is initialised from and compared with.
FormFields == {"searchTerm", "dateFrom", "dateTo", "user", "mediaType"}
PropOf(field) == IF field = "searchTerm" THEN "query" ELSE field
ParamKeys == {PropOf(f) : f \in FormFields}

\* searchParams props: the default {}, an object with every key set to '',
\* an object with a query only.
NoParams == [k \in ParamKeys |-> <<>>]
BlankParams == [k \in ParamKeys |-> <<E>>]
QueryParams == [NoParams EXCEPT !.query = << <<"a">> >>]

\* The props a parent passes.  given: a searchParams prop is passed (one
\* object the parent keeps); without it the default {} is a new object on
\* every render.  onSearch: the parent passes a handler, which keeps the
\* object it is called with and passes it back as searchParams.  The
\* Messages view passes none of these props.
ListPropsSet ==
    {[onPageChange |-> FALSE, onSearch |-> FALSE, given |-> FALSE,
      searchParams |-> NoParams, totalPages |-> 1]}
    \cup {[onPageChange |-> TRUE, onSearch |-> o, given |-> FALSE,
           searchParams |-> NoParams, totalPages |-> t] :
             o \in BOOLEAN, t \in 1..MaxPage}
    \cup {[onPageChange |-> TRUE, onSearch |-> o, given |-> TRUE,
           searchParams |-> sp, totalPages |-> t] :
             o \in BOOLEAN, sp \in {BlankParams, QueryParams}, t \in 1..MaxPage}

\* The useState initialisers of the form: searchParams.key || ''.
InitialForm(sp) ==
    [f \in FormFields |-> IF Falsy(sp[PropOf(f)]) THEN E ELSE sp[PropOf(f)][1]]

\* The condition of the reset effect: some field !== its searchParams key.
ResetNeeded(form, sp) == \E f \in FormFields : sp[PropOf(f)] # <<form[f]>>

\* The page the parent holds after the reset effect ran with page p.
ResetEffect(props, form, p) ==
    IF props.onPageChange /\ ResetNeeded(form, props.searchParams) THEN 1 ELSE p

\* The page of messages the parent passes.
FirstPage == <<CHOOSE m \in SampleMessages : m.id = << <<"1">> >> >>

\* MessageList renders its form and its list, not the empty state.
ListShown == view = "MessageList" /\ mounted /\ listMessages # <<>>

\* The Pagination element is rendered.
PagerShown ==
    \/ view = "Pagination"
    \/ view = "MessageList" /\ listMessages # <<>> /\ listProps.totalPages > 1

\* A handler left the form as form2 and the props as props2 (called: it
\* called onSearch, so searchParams is a new object) and had the parent hold
\* page p2: the re-render, the reset effect if a dependency changed (a form
\* field, or the searchParams object), and Pagination's getPageNumbers for
\* the page that results.
PagedCommit(props2, called, form2, p2) ==
    /\ mounted
    /\ listProps' = props2
    /\ listForm' = form2
    /\ page' = IF /\ view = "MessageList"
                  /\ \/ form2 # listForm
                     \/ called
                     \/ p2 # page /\ ~props2.given
               THEN ResetEffect(props2, form2, p2)
               ELSE p2
    /\ pageNumbers' = IF PagerShown
                      THEN getPageNumbers(listProps.totalPages, page')
                      ELSE <<>>
    /\ UNCHANGED <<view, mounted, searchParams, resultVars, searchQuery, userId,
                   dateFrom, dateTo, sortField, sortOrder, hasMedia,
                   isForwarded, hasReply, searchOnlyVars, inflight, issued,
                   nodeEnv, listMessages, highlightText, groupedMessages,
                   listThrown, resultWindow, parsed>>

\* The first render and its effects: the grouping and the reset.
PagedMount ==
    /\ view \in {"MessageList", "Pagination"}
    /\ listProps # <<>>
    /\ ~mounted
    /\ mounted' = TRUE
    /\ page' = IF view = "MessageList"
               THEN ResetEffect(listProps, listForm, page) ELSE page
    /\ groupedMessages' = IF listMessages = <<>> THEN groupedMessages
                          ELSE GroupByDate(listMessages)
    /\ pageNumbers' = IF PagerShown
                      THEN getPageNumbers(listProps.totalPages, page')
                      ELSE <<>>
    /\ UNCHANGED <<view, searchParams, resultVars, searchQuery, userId,
                   dateFrom, dateTo, sortField, sortOrder, hasMedia,
                   isForwarded, hasReply, searchOnlyVars, inflight, issued,
                   nodeEnv, listMessages, highlightText, listThrown,
                   resultWindow, listProps, listForm, parsed>>

\* Values typed into a field of the MessageList form.
FormTexts == {E, <<"a">>}

\* onChange of a form field; the form is rendered for a parent with onSearch.
ListSetField(f, v) ==
    /\ ListShown
    /\ listProps.onSearch
    /\ PagedCommit(listProps, FALSE, [listForm EXCEPT ![f] = v], page)

\* formatDateForApi of a string.
formatDateForApi(date) == IF date = E THEN E ELSE date

\* handleSearch: onSearch(params) with the form's values.
ListHandleSearch ==
    /\ ListShown
    /\ listProps.onSearch
    /\ PagedCommit([listProps EXCEPT
                       !.given = TRUE,
                       !.searchParams =
                           [k \in ParamKeys |->
                               CASE k = "query" -> <<listForm.searchTerm>>
                                 [] k = "dateFrom" -> <<formatDateForApi(listForm.dateFrom)>>
                                 [] k = "dateTo" -> <<formatDateForApi(listForm.dateTo)>>
                                 [] OTHER -> <<listForm[k]>>]],
                   TRUE, listForm, page)

\* handleReset: the form cleared, onSearch({}).
ListHandleReset ==
    /\ ListShown
    /\ listProps.onSearch
    /\ PagedCommit([listProps EXCEPT !.given = TRUE, !.searchParams = NoParams],
                   TRUE, [f \in FormFields |-> E], page)

\* A numbered button of Pagination: onPageChange(n); the current page's
\* button is disabled.
PaginationPageButton(k) ==
    /\ view \in {"MessageList", "Pagination"}
    /\ mounted
    /\ k \in 1..Len(pageNumbers)
    /\ pageNumbers[k].t = "num"
    /\ pageNumbers[k].v # page
    /\ PagedCommit(listProps, FALSE, listForm, pageNumbers[k].v)

PaginationPrevious ==
    /\ view \in {"MessageList", "Pagination"}
    /\ mounted
    /\ pageNumbers # <<>>
    /\ page # 1
    /\ PagedCommit(listProps, FALSE, listForm, page - 1)

PaginationNext ==
    /\ view \in {"MessageList", "Pagination"}
    /\ mounted
    /\ pageNumbers # <<>>
    /\ page # listProps.totalPages
    /\ PagedCommit(listProps, FALSE, listForm, page + 1)

\* A MessageList under a parent that holds the page, or a Pagination alone
\* under a parent whose onPageChange sets the page.
PagingInit ==
    /\ \/ /\ view = "MessageList"
          /\ listProps \in ListPropsSet
          /\ listForm = InitialForm(listProps.searchParams)
          /\ listMessages \in {<<>>, FirstPage}
       \/ /\ view = "Pagination"
          /\ listProps \in {[onPageChange |-> TRUE, onSearch |-> FALSE,
                             given |-> TRUE, searchParams |-> NoParams,
                             totalPages |-> t] : t \in 1..MaxPagerPages}
          /\ listForm = <<>>
          /\ listMessages = <<>>
    /\ page \in 1..listProps.totalPages
    /\ mounted = FALSE
    /\ searchParams = <<>>
    /\ loading = FALSE
    /\ error = NoError
    /\ messages = <<>>
    /\ totalResults = 0
    /\ searchQuery = E
    /\ userId = E
    /\ dateFrom = E
    /\ dateTo = E
    /\ sortField = sDate
    /\ sortOrder = sDesc
    /\ hasMedia = FALSE
    /\ isForwarded = FALSE
    /\ hasReply = FALSE
    /\ query = E
    /\ authorId = E
    /\ results = <<>>
    /\ users = <<>>
    /\ inflight = <<>>
    /\ issued = 0
    /\ nodeEnv \in NodeEnvs
    /\ highlightText = E
    /\ groupedMessages = <<>>
    /\ listThrown = FALSE
    /\ resultWindow = <<>>
    /\ pageNumbers = <<>>
    /\ parsed = <<>>

PagingNext ==
    \/ PagedMount
    \/ \E f \in FormFields : \E v \in FormTexts : ListSetField(f, v)
    \/ ListHandleSearch
    \/ ListHandleReset
    \/ \E k \in 1..MaxPagerPages : PaginationPageButton(k)
    \/ PaginationPrevious
    \/ PaginationNext

SpecPaging == PagingInit /\ [][PagingNext]_vars

---------------------------------------------------------------------------
\* helpers.js parseSearchParams called on the search params of a URL.

\* Pairs a URL may hold.
MaxPairs == 3

CodecKeys == {"query", "has_media"}
CodecValues == {E, sTrue, sFalse, <<"a">>}

RECURSIVE PairSeqs(_)
PairSeqs(n) ==
    IF n = 0 THEN {<<>>}
    ELSE PairSeqs(n - 1) \cup
         {Append(sp, <<k, v>>) : sp \in {x \in PairSeqs(n - 1) : Len(x) = n - 1},
                                 k \in CodecKeys, v \in CodecValues}

ParseCall ==
    /\ view = "parseSearchParams"
    /\ parsed = <<>>
    /\ parsed' = <<parseSearchParams(searchParams)>>
    /\ UNCHANGED <<view, mounted, searchParams, resultVars, queryVars,
                   searchOnlyVars, inflight, issued, nodeEnv, listMessages,
                   highlightText, groupedMessages, listThrown, resultWindow,
                   listProps, listForm, pageNumbers>>

CodecInit ==
    /\ view = "parseSearchParams"
    /\ searchParams \in PairSeqs(MaxPairs)
    /\ mounted = TRUE
    /\ loading = FALSE
    /\ error = NoError
    /\ messages = <<>>
    /\ totalResults = 0
    /\ page = 1
    /\ searchQuery = E
    /\ userId = E
    /\ dateFrom = E
    /\ dateTo = E
    /\ sortField = sDate
    /\ sortOrder = sDesc
    /\ hasMedia = FALSE
    /\ isForwarded = FALSE
    /\ hasReply = FALSE
    /\ query = E
    /\ authorId = E
    /\ results = <<>>
    /\ users = <<>>
    /\ inflight = <<>>
    /\ issued = 0
    /\ nodeEnv = "production"
    /\ NoPresentation

SpecCodec == CodecInit /\ [][ParseCall]_vars

---------------------------------------------------------------------------
\* The dashboard: the route mounts one of the two views.

Init == MessagesInit \/ SearchInit

Next == MessagesNext \/ SearchNext

Spec == Init /\ [][Next]_vars

\* An outstanding request of the Messages view settles: it is fulfilled or
\* its transport fails.
MessagesSettle ==
    \/ \E i \in 1..MaxFetches : \E body \in ResponseBodies : MessagesResolve(i, body)
    \/ \E i \in 1..MaxFetches : MessagesTransportError(i)

\* The Messages view with a remote that answers or fails every request in
\* the end.
SpecLive == SpecMessages /\ WF_vars(MessagesSettle)

---------------------------------------------------------------------------
\* Properties of the Messages view.

\* The request params of the current query.
CurrentParams == MessagesRequestParams(Q)

\* Some request sent for the current query is still outstanding.
CurrentOutstanding ==
    \E i \in 1..Len(inflight) : inflight[i].params = CurrentParams

WellFormed(q) ==
    /\ q.sortField \in SortFields
    /\ q.sortOrder \in {sAsc, sDesc}
    /\ q.page >= 1

\* C1: last-request-wins.  A fulfilled request's messages and total are
\* applied only if the query the request was sent for is still the current
\* query, so what the view holds once all requests have settled is never the
\* result of a superseded request.
C1_LastRequestWins ==
    [][\A i \in 1..Len(inflight) : \A body \in ResponseBodies :
          MessagesResolve(i, body) => inflight[i].params = CurrentParams]_vars

\* C2: a request that fails after its query has been superseded is dropped:
\* the step that settles it leaves the error state as it was.
C2_StaleFailureDropped ==
    [][\A i \in 1..Len(inflight) :
          (MessagesReject(i) /\ inflight[i].params # CurrentParams)
              => error' = error]_vars

\* C3: reset-on-change.  No request is sent in a step that changes a query
\* field other than page and leaves page above 1.
C3_ResetOnChange ==
    [][(issued' > issued /\ [Q EXCEPT !.page = 1]' # [Q EXCEPT !.page = 1])
          => page' = 1]_vars

\* C4: while a request for the current query is outstanding in the Messages
\* view, the URL holds the encoding of exactly that query; and every step of
\* the Search view that sends a request leaves a URL that decodes to the
\* query of each request sent in the step.
C4_PublishedWhileInFlight ==
    /\ []((view = "Messages" /\ CurrentOutstanding)
              => searchParams = MessagesEncode(Q))
    /\ [][(view = "Search" /\ Len(inflight') > Len(inflight)) =>
              \A i \in (Len(inflight) + 1)..Len(inflight') :
                  SearchDecoded(inflight'[i].params)
                      = SearchDecoded(parseSearchParams(searchParams'))]_vars

\* C4 witness: a request for a non-default query on a later page is
\* outstanding and the URL names that page.
C4_Witness ==
    /\ view = "Messages"
    /\ CurrentOutstanding
    /\ page > 1
    /\ searchQuery # E
    /\ SPGet(searchParams, "page").found

\* C5: round trip.  Initialising the view from the URL it published for a
\* well-formed query yields that query again, page included.
C5_RoundTrip ==
    (view = "Messages" /\ mounted /\ WellFormed(Q))
        => MessagesInitialQuery(MessagesEncode(Q)) = Q

\* C9: the view is Loading for as long as a request sent for the current
\* query is outstanding.
C9_LoadingWhileOutstanding ==
    (view = "Messages" /\ CurrentOutstanding) => loading

\* C10: when the request of the current query fails the view shows the
\* error and no longer holds the result of an earlier request.
C10_FailureDropsResult ==
    [][\A i \in 1..Len(inflight) :
          (MessagesReject(i) /\ inflight[i].params = CurrentParams)
              => (error' # NoError /\ messages' = <<>> /\ totalResults' = 0)]_vars

---------------------------------------------------------------------------
\* Properties of the codec, in either view.

\* A pair of the URL whose value is the default of its key.
DefaultPair(pair) ==
    \/ pair[2] = E
    \/ pair[1] = "page" /\ pair[2] = <<"1">>
    \/ pair[1] = "sort" /\ pair[2] = sDate
    \/ pair[1] = "order" /\ pair[2] = sDesc
    \/ pair[1] \in {"has_media", "is_forwarded", "has_reply"} /\ pair[2] = sFalse

\* C6: default suppression.  Whenever a view publishes the URL, no pair of
\* it holds a default value, so the default query is published as the empty
\* mapping.
C6_DefaultSuppression ==
    [][searchParams' # searchParams
          => \A i \in 1..Len(searchParams') : ~DefaultPair(searchParams'[i])]_vars

\* The URL's first value for the key is the literal "true".
LiteralTrue(sp, key) ==
    \E i \in 1..Len(sp) :
        /\ sp[i] = <<key, sTrue>>
        /\ \A j \in 1..(i - 1) : sp[j][1] # key

\* C7: a content flag decodes to true if the URL's value is the literal
\* "true" and to false in every other case: in the Messages view as it is
\* initialised from the URL, in the Search view as parseSearchParams reads it.
C7_FlagDecoding ==
    /\ (view = "Messages" /\ ~mounted) =>
          /\ hasMedia = LiteralTrue(searchParams, "has_media")
          /\ isForwarded = LiteralTrue(searchParams, "is_forwarded")
          /\ hasReply = LiteralTrue(searchParams, "has_reply")
    /\ (view = "Search" /\ mounted) =>
          \A key \in {"has_media", "is_forwarded", "has_reply"} :
              Truthy(ObjGet(parseSearchParams(searchParams), key))
                  = LiteralTrue(searchParams, key)

\* C8: the page a view decodes from the URL is a positive integer.
C8_DecodedPagePositive == mounted => page >= 1

---------------------------------------------------------------------------
\* Properties of failure handling.

\* C11: the Retry of the error branch leaves every field of the query, page
\* included, as it was when the request failed.
C11_RetryKeepsQuery == [][MessagesRetry => Q' = Q]_vars

\* C12: a transport failure of the request sent for the current query puts
\* the view in its error state; it is never taken for a result.
C12_TransportFailureFails ==
    [][\A i \in 1..Len(inflight) :
          (MessagesTransportError(i) /\ inflight[i].params = CurrentParams)
              => error' # NoError]_vars

---------------------------------------------------------------------------
\* Properties of the presentation.

\* The text of a timestamp before its first 'T', the whole text without one.
DatePortion(str) ==
    LET ts == {k \in 1..Len(str) : str[k] = "T"}
    IN  IF ts = {} THEN str
        ELSE SubSeq(str, 1, (CHOOSE k \in ts : \A j \in ts : k <= j) - 1)

\* Date a is later than date b, both written YYYY-MM-DD.
DateStringAfter(a, b) ==
    \E k \in 1..Min(Len(a), Len(b)) :
        /\ SubSeq(a, 1, k - 1) = SubSeq(b, 1, k - 1)
        /\ IsDigit(a[k]) /\ IsDigit(b[k])
        /\ DigitVal(a[k]) > DigitVal(b[k])

C14_GroupsDerived ==
    (view = "MessageList" /\ ~listThrown) =>
        groupedMessages = GroupByDate(listMessages)

\* C15: pagination math.  With 20 results to a page, the page count a render
\* computes is the least number of pages that hold the total, and the window
\* it shows runs from (page - 1) * 20 + 1 to the smaller of page * 20 and the
\* total; a total of 45 on page 3 gives 3 pages and the window 41 to 45.
C15_PaginationMath ==
    DOMAIN resultWindow # {} =>
        /\ resultWindow.totalPages * 20 >= totalResults
        /\ (resultWindow.totalPages - 1) * 20 < totalResults
        /\ resultWindow.range # <<>> =>
              /\ resultWindow.range[1] = (page - 1) * 20 + 1
              /\ resultWindow.range[2] <= page * 20
              /\ resultWindow.range[2] <= totalResults
              /\ resultWindow.range[2] \in {page * 20, totalResults}
        /\ (totalResults = 45 /\ page = 3) =>
              /\ resultWindow.totalPages = 3
              /\ resultWindow.range = <<41, 45>>

\* C15 witness: a view has rendered a total of 45 on page 3.
C15_Witness ==
    /\ DOMAIN resultWindow # {}
    /\ totalResults = 45
    /\ page = 3
    /\ resultWindow.shown
    /\ resultWindow.range = <<41, 45>>

\* A response body without messages and without a total: the fields empty,
\* zero or absent.
EmptyBody(body) ==
    /\ body.messages \in {<<>>, << <<>> >>}
    /\ body.total \in {<<>>, <<0>>}

---------------------------------------------------------------------------
\* Properties of the requests.

RequiredKeys == {"page", "page_size", "sort_by", "sort_order"}
OptionalKeys == {"search_text", "user_id", "date_from", "date_to",
                 "has_media", "is_forwarded", "has_reply"}

\* The optional keys whose field of query q is not at its default.
NonDefaultKeys(q) ==
    {k \in OptionalKeys :
        \/ k = "search_text" /\ q.searchQuery # E
        \/ k = "user_id" /\ q.userId # E
        \/ k = "date_from" /\ q.dateFrom # E
        \/ k = "date_to" /\ q.dateTo # E
        \/ k = "has_media" /\ q.hasMedia
        \/ k = "is_forwarded" /\ q.isForwarded
        \/ k = "has_reply" /\ q.hasReply}

\* The keys of a request's params in the Search view.
SearchRequestKeys(params) == {params[k][1] : k \in 1..Len(params)}

\* The request the Messages view sends in a step carries the four required
\* keys, page_size 20, and an optional key exactly for each non-default
\* field of the query.
MessagesRequestWellFormed ==
    [][(view = "Messages" /\ issued' > issued) =>
          LET r == inflight'[Len(inflight')].params
          IN  /\ DOMAIN r = RequiredKeys \cup NonDefaultKeys(Q')
              /\ r.page = page'
              /\ r.page_size = 20
              /\ r.sort_by = sortField'
              /\ r.sort_order = sortOrder']_vars

\* C17: every search request carries page, page_size (20), sort_by and
\* sort_order, an optional key exactly when its query field is non-default,
\* and no other key.
C17_RequestParams ==
    /\ MessagesRequestWellFormed
    /\ [](view = "Search" =>
             \A i \in 1..Len(inflight) :
                 /\ RequiredKeys \subseteq SearchRequestKeys(inflight[i].params)
                 /\ SearchRequestKeys(inflight[i].params)
                        \subseteq RequiredKeys \cup OptionalKeys)

---------------------------------------------------------------------------
\* Properties of the message cards.

\* The two names of each aliased field, the preferred one first.
FieldAliases == {<<"content", "text">>, <<"user_name", "from_name">>,
                 <<"from_id", "user_id">>}

\* The message with the values of the two names exchanged.
Renamed(message, pair) ==
    [message EXCEPT ![pair[1]] = message[pair[2]], ![pair[2]] = message[pair[1]]]

\* The messages MessageList renders a card for.
CardMessages ==
    IF view = "MessageList" /\ ~listThrown
    THEN {listMessages[i] : i \in 1..Len(listMessages)}
    ELSE {}

\* C18: field aliasing.  A card for a message that supplies a field under
\* one of its two names only shows what it would show had the message
\* supplied the same value under the other name: for the text (content,
\* text), the author name (user_name, from_name) and the author id (from_id,
\* user_id).
C18_FieldAliasing ==
    \A message \in CardMessages : \A pair \in FieldAliases :
        ((message[pair[1]] = <<>>) # (message[pair[2]] = <<>>)) =>
            MessageCardFields(Renamed(message, pair)) = MessageCardFields(message)

\* C19: fail-closed on missing fields.  Presenting a page never throws,
\* whatever fields its messages lack.
C19_NeverThrows == view = "MessageList" => ~listThrown

\* The lower-case form of a letter of the sample texts.
LowerCase(c) == CASE c = "A" -> "a" [] c = "B" -> "b" [] OTHER -> c

\* The term occurs in the text at position i, case ignored.
OccursAt(text, term, i) ==
    /\ i + Len(term) - 1 <= Len(text)
    /\ \A k \in 1..Len(term) : LowerCase(text[i + k - 1]) = LowerCase(term[k])

\* The start positions of the non-overlapping occurrences of the term in
\* the text from position i on, left to right; none for an empty term.
RECURSIVE Occurrences(_, _, _)
Occurrences(text, term, i) ==
    IF term = E \/ i > Len(text) THEN <<>>
    ELSE IF OccursAt(text, term, i)
    THEN <<i>> \o Occurrences(text, term, i + Len(term))
    ELSE Occurrences(text, term, i + 1)

\* The start positions, in the text of a card body, of its marked nodes.
RECURSIVE MarkedStarts(_, _)
MarkedStarts(nodes, offset) ==
    IF nodes = <<>> THEN <<>>
    ELSE (IF Head(nodes).mark THEN <<offset>> ELSE <<>>)
         \o MarkedStarts(Tail(nodes), offset + Len(Head(nodes).text))

\* C20: highlighting.  The marked spans of every card are the
\* case-insensitive, non-overlapping occurrences of the highlightText in the
\* message's text; an empty term gives no span.
C20_Highlighting ==
    \A message \in CardMessages :
        MarkedStarts(MessageCardBody(message), 1)
            = Occurrences(MessageCardFields(message).messageContent,
                          highlightText, 1)

---------------------------------------------------------------------------
\* Properties of sorting in the Messages view.

SortOrders == {sAsc, sDesc}

\* C21: the sort field of the Messages view is one of date, user, length and
\* its sort order one of asc, desc, from whatever URL the view was opened;
\* no outstanding request carries another sort_by or sort_order.
C21_SortValuesValid ==
    view = "Messages" =>
        /\ sortField \in SortFields
        /\ sortOrder \in SortOrders
        /\ \A i \in 1..Len(inflight) :
              /\ inflight[i].params.sort_by \in SortFields
              /\ inflight[i].params.sort_order \in SortOrders

---------------------------------------------------------------------------
\* Properties of the Search view's requests.

\* The requests a step sends: the positions it appends to inflight.
SentInStep == (Len(inflight) + 1)..Len(inflight')

\* C22: the Search view sends no request for an empty query text: every
\* request a step sends carries a non-empty query, so a view opened without
\* a query, or acted on while its text is empty, stays idle.
C22_NoRequestForEmptyText ==
    [][(view = "Search" /\ Len(inflight') > Len(inflight)) =>
          \A i \in SentInStep :
              Truthy(ObjGet(inflight'[i].params, "query"))]_vars

---------------------------------------------------------------------------
\* Properties of paging in MessageList and Pagination.

\* No field of the MessageList form has been edited, before or in the step.
FormUnedited ==
    /\ view = "MessageList"
    /\ listProps # <<>>
    /\ listForm = InitialForm(listProps.searchParams)
    /\ listForm' = listForm

\* C23: while no field of its form is edited, MessageList does not call
\* onPageChange(1) on its own: the first render leaves the parent's page as
\* it is, and a press of a Pagination control leaves the page it selected.
C23_NoSpontaneousReset ==
    [][FormUnedited =>
          /\ PagedMount => page' = page
          /\ \A k \in 1..Len(pageNumbers) :
                PaginationPageButton(k) => page' = pageNumbers[k].v
          /\ PaginationPrevious => page' = page - 1
          /\ PaginationNext => page' = page + 1]_vars

\* The positions of the numeric entries of a page list.
NumericAt(list) == {k \in 1..Len(list) : list[k].t = "num"}

\* The page list has the number n.
HasPage(list, n) == \E k \in NumericAt(list) : list[k].v = n

\* C26: getPageNumbers.  For totalPages >= 1 and currentPage in
\* 1..totalPages the list holds 1, totalPages and currentPage; its numbers
\* lie in 1..totalPages and increase strictly; an ellipsis stands exactly
\* between two successive numbers that are not adjacent integers; up to 7
\* pages the list is 1..totalPages.
C26_PageNumbers ==
    (mounted /\ view \in {"MessageList", "Pagination"} /\ pageNumbers # <<>>) =>
        LET list == pageNumbers
            total == listProps.totalPages
        IN  /\ HasPage(list, 1) /\ HasPage(list, total) /\ HasPage(list, page)
            /\ \A k \in NumericAt(list) : list[k].v \in 1..total
            /\ \A k, l \in NumericAt(list) : k < l => list[k].v < list[l].v
            /\ \A k \in 1..Len(list) : list[k].t \in {"num", "str"}
            /\ \A k \in 1..Len(list) \ NumericAt(list) :
                  /\ list[k].v = sEllipsis
                  /\ k - 1 \in NumericAt(list)
                  /\ k + 1 \in NumericAt(list)
                  /\ list[k + 1].v > list[k - 1].v + 1
            /\ \A k \in NumericAt(list) :
                  k + 1 \in NumericAt(list) => list[k + 1].v = list[k].v + 1
            /\ total <= 7 =>
                  /\ Len(list) = total
                  /\ \A k \in 1..total : list[k].t = "num" /\ list[k].v = k

\* C26 witness: a Pagination of 9 pages on page 5 shows
\* 1 ... 3 4 5 6 7 ... 9.
C26_Witness ==
    /\ view = "Pagination"
    /\ mounted
    /\ listProps.totalPages = 9
    /\ page = 5
    /\ Len(pageNumbers) = 9
    /\ pageNumbers[2].t = "str"
    /\ pageNumbers[8].t = "str"
    /\ pageNumbers[3].t = "num" /\ pageNumbers[3].v = 3

---------------------------------------------------------------------------
\* Properties of the Messages view's handlers.

\* The fields of a query other than its sort and its page.
Filters(q) == [searchQuery |-> q.searchQuery, userId |-> q.userId,
               dateFrom |-> q.dateFrom, dateTo |-> q.dateTo,
               hasMedia |-> q.hasMedia, isForwarded |-> q.isForwarded,
               hasReply |-> q.hasReply]

NoFilters == [searchQuery |-> E, userId |-> E, dateFrom |-> E, dateTo |-> E,
              hasMedia |-> FALSE, isForwarded |-> FALSE, hasReply |-> FALSE]

\* The Clear Filters button can be pressed and the view may still send.
CanClear == view = "Messages" /\ mounted /\ issued < MaxFetches

\* C25 as stated: wherever clearFilters can run, it sends one request.
C25_AlwaysOneFetch ==
    CanClear => ENABLED (clearFilters /\ issued' = issued + 1)

\* What a clearFilters step that sends a request does: text, author and
\* dates empty, the flags false, page 1, the sort as it was, one request
\* sent, and a URL with no key other than sort and order.
ClearFiltersStep ==
    [][(issued' > issued /\ clearFilters) =>
          /\ Filters(Q)' = NoFilters
          /\ page' = 1
          /\ sortField' = sortField /\ sortOrder' = sortOrder
          /\ issued' = issued + 1
          /\ Len(inflight') = Len(inflight) + 1
          /\ DOMAIN inflight'[Len(inflight')].params = RequiredKeys
          /\ \A k \in 1..Len(searchParams') :
                searchParams'[k][1] \in {"sort", "order"}]_vars

\* C25: clearFilters with a filter set or on a later page does what
\* ClearFiltersStep says, one request included; with every filter already
\* clear on page 1 it changes nothing and sends no request, and the URL
\* still has no key other than sort and order.
C25_ClearFilters ==
    /\ ClearFiltersStep
    /\ []((CanClear /\ Filters(Q) = NoFilters /\ page = 1) =>
             /\ ~ENABLED (clearFilters /\ issued' # issued)
             /\ \A k \in 1..Len(searchParams) :
                   searchParams[k][1] \in {"sort", "order"})

\* C25 witness: a request with two filters is followed by the request
\* clearFilters sent, which has none.
C25_Witness ==
    /\ view = "Messages"
    /\ Len(inflight) = 3
    /\ Cardinality(DOMAIN inflight[2].params \cap OptionalKeys) >= 2
    /\ DOMAIN inflight[3].params = RequiredKeys
    /\ Filters(Q) = NoFilters
    /\ page = 1

---------------------------------------------------------------------------
\* Properties of parseSearchParams.

\* The values of the key in the URL, in order.
ValuesOf(sp, key) ==
    LET hits == SelectSeq(sp, LAMBDA pair : pair[1] = key)
    IN  [k \in 1..Len(hits) |-> hits[k][2]]

\* C27: parseSearchParams.  A key that occurs n >= 2 times maps to an array
\* of n entries, one for each occurrence in order, whatever the values; a
\* key that occurs once maps to its value, 'true' and 'false' as booleans.
C27_ParseSearchParams ==
    parsed # <<>> =>
        \A key \in CodecKeys :
            LET values == ValuesOf(searchParams, key)
                got == ObjGet(parsed[1], key)
            IN  /\ Len(values) >= 2 =>
                      /\ got.t = "arr"
                      /\ Len(got.v) = Len(values)
                      /\ \A k \in 1..Len(values) : JSString(got.v[k]) = values[k]
                /\ Len(values) = 1 =>
                      /\ values[1] = sTrue => (got.t = "bool" /\ got.v)
                      /\ values[1] = sFalse => (got.t = "bool" /\ ~got.v)
                      /\ values[1] \notin {sTrue, sFalse} =>
                            (got.t = "str" /\ got.v = values[1])

---------------------------------------------------------------------------
\* Properties of the Search view's actions.

\* C28: one action of the Search view sends at most one request: no step
\* leaves two requests it sent in flight together.
C28_OneRequestPerAction ==
    [][view = "Search" => Len(inflight') <= Len(inflight) + 1]_vars

---------------------------------------------------------------------------
\* Properties of the Messages view's result window.

\* C29: while the Messages view shows results (not loading, no error, a
\* total above 0) the page is at most the page count and the window
\* startResult..endResult lies within 1..totalResults; the Previous and Next
\* controls leave the page within 1..totalPages.
C29_WindowWithinResults ==
    /\ [](( /\ view = "Messages"
            /\ mounted
            /\ ~loading
            /\ error = NoError
            /\ totalResults > 0) =>
              /\ page <= totalPages
              /\ 1 <= startResult
              /\ startResult <= endResult
              /\ endResult <= totalResults)
    /\ [][(MessagesPrevious \/ MessagesNextPage) => page' \in 1..totalPages]_vars

---------------------------------------------------------------------------
\* Properties of termination.

====
